---------------------------- MODULE Spec2Model ----------------------------
(***************************************************************************)
(* Lesson store, annotation session and review navigator of the            *)
(* code-highlight extension (src/src/lessonManager.ts, notesPanel.ts,      *)
(* decorationManager.ts, notesReview.ts and the command layer in           *)
(* src/unnamed/part_001).                                                  *)
(*                                                                         *)
(* JavaScript values are tagged trees [t, v]; a file is a sequence of      *)
(* JSON lexemes written by Stringify and read back by Parse.  A string is  *)
(* a sequence of atoms, the atom " " being white space.                    *)
(***************************************************************************)
EXTENDS Integers, Sequences, FiniteSets, TLC

(***************************************************************************)
(* Bounds of the model.                                                    *)
(***************************************************************************)
\* createLesson is explored while the id it assigns is at most MaxId
MaxId == 3
\* review commands are explored while fewer than MaxTasks are suspended
MaxTasks == 2
\* commits are explored while the store holds fewer than MaxNotes notes
MaxNotes == 1
\* with another writer of the lesson files, commits and that writer's notes
\* are explored while the store holds fewer than MaxStoredNotes notes
MaxStoredNotes == 2

(***************************************************************************)
(* JavaScript values.                                                      *)
(***************************************************************************)
Num(n) == [t |-> "num", v |-> n]
Str(s) == [t |-> "str", v |-> s]
Null == [t |-> "null", v |-> 0]
Undefined == [t |-> "undef", v |-> 0]
Arr(items) == [t |-> "arr", v |-> items]
\* fields: a sequence of <<key, value>> pairs in insertion order
Obj(fields) == [t |-> "obj", v |-> fields]

\* obj[key]: the property's value, undefined when obj has no such property
Get(obj, key) ==
  IF obj.t = "obj" /\ \E i \in 1..Len(obj.v) : obj.v[i][1] = key
  THEN LET i == CHOOSE j \in 1..Len(obj.v) : obj.v[j][1] = key IN obj.v[i][2]
  ELSE Undefined

\* obj[key] = val: an existing property keeps its place, a new one is added last
Put(obj, key, val) ==
  IF \E i \in 1..Len(obj.v) : obj.v[i][1] = key
  THEN Obj([i \in 1..Len(obj.v) |->
              IF obj.v[i][1] = key THEN <<key, val>> ELSE obj.v[i]])
  ELSE Obj(Append(obj.v, <<key, val>>))

\* String.prototype.trim: drop the leading and the trailing white space
RECURSIVE TrimStart(_)
TrimStart(s) == IF s # <<>> /\ Head(s) = " " THEN TrimStart(Tail(s)) ELSE s

RECURSIVE TrimEnd(_)
TrimEnd(s) ==
  IF s # <<>> /\ s[Len(s)] = " " THEN TrimEnd(SubSeq(s, 1, Len(s) - 1)) ELSE s

Trim(s) == TrimEnd(TrimStart(s))

(***************************************************************************)
(* JSON text: a sequence of lexemes.  Scalars are their own lexemes.       *)
(***************************************************************************)
P(c) == [t |-> "p", v |-> c]
Key(k) == [t |-> "key", v |-> k]
IsP(tok, c) == tok.t = "p" /\ tok.v = c

\* JSON.stringify(value, null, 2); the indentation is white space between
\* lexemes and is not represented
RECURSIVE Stringify(_)
RECURSIVE StringifyItems(_)
RECURSIVE StringifyFields(_)

StringifyItems(items) ==
  IF items = <<>> THEN <<>>
  ELSE IF Len(items) = 1 THEN Stringify(items[1])
  ELSE Stringify(items[1]) \o <<P(",")>> \o StringifyItems(Tail(items))

StringifyFields(fields) ==
  IF fields = <<>> THEN <<>>
  ELSE LET f == fields[1]
           one == <<Key(f[1]), P(":")>> \o Stringify(f[2])
       IN IF Len(fields) = 1 THEN one
          ELSE one \o <<P(",")>> \o StringifyFields(Tail(fields))

Stringify(val) ==
  CASE val.t = "arr" -> <<P("[")>> \o StringifyItems(val.v) \o <<P("]")>>
    [] val.t = "obj" -> <<P("{")>> \o StringifyFields(val.v) \o <<P("}")>>
    [] OTHER -> <<val>>

\* JSON.parse(text): recursive descent; ok = FALSE is a SyntaxError
ParseFail == [ok |-> FALSE, val |-> Undefined, next |-> 0]

RECURSIVE ParseValue(_, _)
RECURSIVE ParseItems(_, _, _)
RECURSIVE ParseFields(_, _, _)

ParseItems(toks, i, acc) ==
  IF i > Len(toks) THEN ParseFail
  ELSE IF IsP(toks[i], "]") /\ acc = <<>>
  THEN [ok |-> TRUE, val |-> Arr(<<>>), next |-> i + 1]
  ELSE LET r == ParseValue(toks, i) IN
       IF ~r.ok \/ r.next > Len(toks) THEN ParseFail
       ELSE IF IsP(toks[r.next], ",")
       THEN ParseItems(toks, r.next + 1, Append(acc, r.val))
       ELSE IF IsP(toks[r.next], "]")
       THEN [ok |-> TRUE, val |-> Arr(Append(acc, r.val)), next |-> r.next + 1]
       ELSE ParseFail

ParseFields(toks, i, acc) ==
  IF i > Len(toks) THEN ParseFail
  ELSE IF IsP(toks[i], "}") /\ acc = <<>>
  THEN [ok |-> TRUE, val |-> Obj(<<>>), next |-> i + 1]
  ELSE IF toks[i].t # "key" \/ i + 1 > Len(toks) \/ ~IsP(toks[i + 1], ":")
  THEN ParseFail
  ELSE LET r == ParseValue(toks, i + 2)
           k == toks[i].v
       IN
       IF ~r.ok \/ r.next > Len(toks) THEN ParseFail
       ELSE IF IsP(toks[r.next], ",")
       THEN ParseFields(toks, r.next + 1, Put(Obj(acc), k, r.val).v)
       ELSE IF IsP(toks[r.next], "}")
       THEN [ok |-> TRUE, val |-> Put(Obj(acc), k, r.val), next |-> r.next + 1]
       ELSE ParseFail

ParseValue(toks, i) ==
  IF i > Len(toks) THEN ParseFail
  ELSE LET tok == toks[i] IN
       CASE tok.t \in {"num", "str", "null"} ->
              [ok |-> TRUE, val |-> tok, next |-> i + 1]
         [] IsP(tok, "[") -> ParseItems(toks, i + 1, <<>>)
         [] IsP(tok, "{") -> ParseFields(toks, i + 1, <<>>)
         [] OTHER -> ParseFail

Parse(toks) ==
  LET r == ParseValue(toks, 1) IN
  IF r.ok /\ r.next = Len(toks) + 1
  THEN [ok |-> TRUE, val |-> r.val]
  ELSE [ok |-> FALSE, val |-> Undefined]

(***************************************************************************)
(* The file system below <workspace>/.vscode, and the host.                *)
(***************************************************************************)
NoFile == [exists |-> FALSE, text |-> <<>>]
File(text) == [exists |-> TRUE, text |-> text]

VARIABLES
  masterFile,        \* .vscode/lessons.json
  lessonFiles,       \* id |-> .vscode/lessons/lesson-<id>.json
  statusBar,         \* statusBarItem.text: the title shown, Null for none
  notesPanel,        \* notesPanel is defined
  currentSelection,  \* notesPanel.ts currentSelection
  currentText,       \* notesPanel.ts currentText
  currentRanges,     \* decorationManager.currentRanges
  currentEditor,     \* decorationManager.currentEditor: its file, Undefined
  review,            \* NotesReviewController and its content provider
  tasks,             \* the review commands suspended on a request to the host
  assigned,          \* history: the ids createLesson has returned so far
  last               \* the last operation: name, argument, error, result,
                     \* and what it read before it acted

storeVars == <<masterFile, lessonFiles>>
sessionVars == <<notesPanel, currentSelection, currentText>>
decoVars == <<currentRanges, currentEditor>>
reviewVars == <<review, tasks>>
vars == <<masterFile, lessonFiles, statusBar, notesPanel, currentSelection,
          currentText, currentRanges, currentEditor, review, tasks, assigned,
          last>>

\* ids a lesson file can be named by
Ids == 1..MaxId

\* pre: the activeLessonId an operation read, and whether the file it is
\* about existed, before it acted (recorded by deleteLesson)
NoPre == [active |-> Undefined, file |-> FALSE]
Done(op, arg, err, ret) ==
  [op |-> op, arg |-> arg, err |-> err, ret |-> ret, pre |-> NoPre]

(***************************************************************************)
(* LessonManager (src/src/lessonManager.ts).                               *)
(***************************************************************************)
DefaultState == Obj(<< <<"activeLessonId", Null>>, <<"lessons", Arr(<<>>)>> >>)

\* (mutant) a SyntaxError of JSON.parse is not caught
loadMasterStateUncaught(mf) ==
  IF ~mf.exists THEN DefaultState ELSE Parse(mf.text).val

loadMasterState(mf) ==
  IF ~mf.exists THEN DefaultState
  ELSE LET p == Parse(mf.text) IN IF p.ok THEN p.val ELSE DefaultState

getLessonById(lf, id) ==
  IF id.t # "num" \/ id.v \notin Ids THEN Null
  ELSE IF ~lf[id.v].exists THEN Null
  ELSE LET p == Parse(lf[id.v].text) IN IF p.ok THEN p.val ELSE Null

getActiveLessonWithoutUpdate(mf, lf) ==
  LET state == loadMasterState(mf) IN
  IF Get(state, "activeLessonId") = Null THEN Null
  ELSE getLessonById(lf, Get(state, "activeLessonId"))

getActiveLesson(mf, lf) ==
  LET state == loadMasterState(mf) IN
  IF Get(state, "activeLessonId") = Null THEN Null
  ELSE getLessonById(lf, Get(state, "activeLessonId"))

getAllLessons(mf) == Get(loadMasterState(mf), "lessons")

\* if (x): false for null, undefined, 0 and the empty string
Truthy(x) ==
  CASE x.t \in {"null", "undef"} -> FALSE
    [] x.t = "num" -> x.v # 0
    [] x.t = "str" -> x.v # <<>>
    [] OTHER -> TRUE

\* updateStatusBar: the text the status bar gets for the files (mf, lf)
updateStatusBar(mf, lf) ==
  LET activeLesson == getActiveLessonWithoutUpdate(mf, lf) IN
  IF Truthy(activeLesson) THEN Get(activeLesson, "title") ELSE Null

MaxOf(S) == CHOOSE m \in S : \A n \in S : n <= m

\* state.activeLessonId: a TypeError when state is null
ThrowsOnRead(state) == state.t \in {"null", "undef"}

\* state.lessons.length, state.lessons.find(...), state.lessons.findIndex(...):
\* a TypeError unless state.lessons is an array
ThrowsOnLessons(state) == Get(state, "lessons").t # "arr"

\* (mutant) the next id is taken from the number of lessons
getNextLessonIdByCount(mf) ==
  Len(Get(loadMasterState(mf), "lessons").v) + 1

getNextLessonId(mf) ==
  LET lessons == Get(loadMasterState(mf), "lessons").v IN
  IF Len(lessons) = 0 THEN 1
  ELSE MaxOf({Get(lessons[i], "id").v : i \in 1..Len(lessons)}) + 1

NewLesson(newId, title) ==
  Obj(<< <<"id", Num(newId)>>, <<"title", Str(Trim(title))>>,
         <<"notes", Arr(<<>>)>> >>)

LessonSummary(lesson) ==
  Obj(<< <<"id", Get(lesson, "id")>>, <<"title", Get(lesson, "title")>> >>)

\* (mutant) the new lesson is listed but not made the active one
CreatedStateNotActive(state, lesson) ==
  Put(state, "lessons",
      Arr(Append(Get(state, "lessons").v, LessonSummary(lesson))))

\* createLesson(title): the master state it saves
CreatedState(state, lesson) ==
  Put(Put(state, "lessons",
          Arr(Append(Get(state, "lessons").v, LessonSummary(lesson)))),
      "activeLessonId", Get(lesson, "id"))

createLesson(title) ==
  LET state == loadMasterState(masterFile)
      newId == getNextLessonId(masterFile)
      lesson == NewLesson(newId, title)
  IN
  IF ThrowsOnLessons(state)
  THEN /\ last' = Done("createLesson", 0, "TypeError", Undefined)
       /\ UNCHANGED <<storeVars, statusBar, sessionVars, decoVars, assigned, reviewVars>>
  ELSE /\ newId <= MaxId
       /\ lessonFiles' = [lessonFiles EXCEPT ![newId] = File(Stringify(lesson))]
       /\ masterFile' = File(Stringify(CreatedState(state, lesson)))
       /\ statusBar' = updateStatusBar(masterFile', lessonFiles')
       /\ assigned' = assigned \cup {newId}
       /\ last' = Done("createLesson", newId, "none", lesson)
       /\ UNCHANGED <<sessionVars, decoVars, reviewVars>>

\* state.lessons.findIndex(l => l.id === id), 0 for -1
FindIndex(lessons, id) ==
  IF \E i \in 1..Len(lessons) : Get(lessons[i], "id") = Num(id)
  THEN CHOOSE i \in 1..Len(lessons) :
         /\ Get(lessons[i], "id") = Num(id)
         /\ \A j \in 1..(i - 1) : Get(lessons[j], "id") # Num(id)
  ELSE 0

\* (mutant) the id is not looked up before it is made active
setActiveLessonUnchecked(id) ==
  /\ masterFile' = File(Stringify(
       Put(loadMasterState(masterFile), "activeLessonId", Num(id))))
  /\ statusBar' = updateStatusBar(masterFile', lessonFiles)
  /\ last' = Done("setActiveLesson", id, "none", Undefined)
  /\ UNCHANGED <<lessonFiles, sessionVars, decoVars, assigned, reviewVars>>

setActiveLesson(id) ==
  LET state == loadMasterState(masterFile) IN
  IF ThrowsOnLessons(state)
  THEN /\ last' = Done("setActiveLesson", id, "TypeError", Undefined)
       /\ UNCHANGED <<storeVars, statusBar, sessionVars, decoVars, assigned, reviewVars>>
  ELSE IF FindIndex(Get(state, "lessons").v, id) = 0
  THEN /\ last' = Done("setActiveLesson", id, "NotFound", Undefined)
       /\ UNCHANGED <<storeVars, statusBar, sessionVars, decoVars, assigned, reviewVars>>
  ELSE /\ masterFile' = File(Stringify(Put(state, "activeLessonId", Num(id))))
       /\ statusBar' = updateStatusBar(masterFile', lessonFiles)
       /\ last' = Done("setActiveLesson", id, "none", Undefined)
       /\ UNCHANGED <<lessonFiles, sessionVars, decoVars, assigned, reviewVars>>

\* (mutant) the entry is not removed
SpliceNothing(seq, index) == seq

\* lessons.splice(index, 1)
Splice(seq, index) ==
  SubSeq(seq, 1, index - 1) \o SubSeq(seq, index + 1, Len(seq))

\* (mutant) the activeLessonId is kept when its lesson is deleted
ActiveAfterDeleteKept(active, id, remaining) == active

\* (mutant) the last remaining lesson is made active, not the first
ActiveAfterDeleteLast(active, id, remaining) ==
  IF active = Num(id)
  THEN IF Len(remaining) > 0
       THEN Get(remaining[Len(remaining)], "id") ELSE Null
  ELSE active

\* deleteLesson(id): the activeLessonId it saves with the remaining lessons
ActiveAfterDelete(active, id, remaining) ==
  IF active = Num(id)
  THEN IF Len(remaining) > 0 THEN Get(remaining[1], "id") ELSE Null
  ELSE active

\* (mutant) the lesson file is unlinked without asking whether it exists
deleteLessonNoExistsCheck(id) ==
  LET state == loadMasterState(masterFile)
      lessonIndex == FindIndex(Get(state, "lessons").v, id)
      remaining == Splice(Get(state, "lessons").v, lessonIndex)
      active == ActiveAfterDelete(Get(state, "activeLessonId"), id, remaining)
  IN
  IF lessonIndex = 0
  THEN /\ last' = Done("deleteLesson", id, "NotFound", Undefined)
       /\ UNCHANGED <<storeVars, statusBar, sessionVars, decoVars, assigned, reviewVars>>
  ELSE IF ~lessonFiles[id].exists
  THEN /\ last' = Done("deleteLesson", id, "ENOENT", Undefined)
       /\ UNCHANGED <<storeVars, statusBar, sessionVars, decoVars, assigned, reviewVars>>
  ELSE /\ lessonFiles' = [lessonFiles EXCEPT ![id] = NoFile]
       /\ masterFile' = File(Stringify(
            Put(Put(state, "lessons", Arr(remaining)), "activeLessonId", active)))
       /\ statusBar' = updateStatusBar(masterFile', lessonFiles')
       /\ last' = [Done("deleteLesson", id, "none", Undefined) EXCEPT
                      !.pre = [active |-> Get(state, "activeLessonId"),
                               file |-> lessonFiles[id].exists]]
       /\ UNCHANGED <<sessionVars, decoVars, assigned, reviewVars>>

deleteLesson(id) ==
  LET state == loadMasterState(masterFile)
      lessonIndex == FindIndex(Get(state, "lessons").v, id)
      remaining == Splice(Get(state, "lessons").v, lessonIndex)
      active == ActiveAfterDelete(Get(state, "activeLessonId"), id, remaining)
  IN
  IF ThrowsOnLessons(state)
  THEN /\ last' = Done("deleteLesson", id, "TypeError", Undefined)
       /\ UNCHANGED <<storeVars, statusBar, sessionVars, decoVars, assigned, reviewVars>>
  ELSE IF lessonIndex = 0
  THEN /\ last' = Done("deleteLesson", id, "NotFound", Undefined)
       /\ UNCHANGED <<storeVars, statusBar, sessionVars, decoVars, assigned, reviewVars>>
  ELSE /\ lessonFiles' = [lessonFiles EXCEPT ![id] = NoFile]
       /\ masterFile' = File(Stringify(
            Put(Put(state, "lessons", Arr(remaining)), "activeLessonId", active)))
       /\ statusBar' = updateStatusBar(masterFile', lessonFiles')
       /\ last' = [Done("deleteLesson", id, "none", Undefined) EXCEPT
                      !.pre = [active |-> Get(state, "activeLessonId"),
                               file |-> lessonFiles[id].exists]]
       /\ UNCHANGED <<sessionVars, decoVars, assigned, reviewVars>>

\* (mutant) only the id and the title of the lesson are written
saveLessonSummary(lf, lesson) ==
  [lf EXCEPT ![Get(lesson, "id").v] = File(Stringify(LessonSummary(lesson)))]

\* (mutant) the lesson is written to the file of the first lesson
saveLessonFirstFile(lf, lesson) ==
  [lf EXCEPT ![1] = File(Stringify(lesson))]

\* saveLesson(lesson): the lesson files afterwards
saveLesson(lf, lesson) ==
  [lf EXCEPT ![Get(lesson, "id").v] = File(Stringify(lesson))]

\* a call of saveLesson(lesson) from outside the session
saveLessonCall(lesson) ==
  /\ lessonFiles' = saveLesson(lessonFiles, lesson)
  /\ last' = Done("saveLesson", Get(lesson, "id").v, "none", lesson)
  /\ UNCHANGED <<masterFile, statusBar, sessionVars, decoVars, assigned, reviewVars>>

\* a call of getLessonById(id)
getLessonByIdCall(id) ==
  /\ last' = Done("getLessonById", id, "none",
                  getLessonById(lessonFiles, Num(id)))
  /\ UNCHANGED <<storeVars, statusBar, sessionVars, decoVars, assigned, reviewVars>>

\* a call of getAllLessons()
getAllLessonsCall ==
  LET state == loadMasterState(masterFile) IN
  /\ last' = IF ThrowsOnRead(state)
              THEN Done("getAllLessons", 0, "TypeError", Undefined)
              ELSE Done("getAllLessons", 0, "none", Get(state, "lessons"))
  /\ UNCHANGED <<storeVars, statusBar, sessionVars, decoVars, assigned, reviewVars>>

\* a call of getActiveLesson(), which refreshes the status bar
getActiveLessonCall ==
  LET state == loadMasterState(masterFile) IN
  /\ IF ThrowsOnRead(state)
     THEN /\ last' = Done("getActiveLesson", 0, "TypeError", Undefined)
          /\ UNCHANGED statusBar
     ELSE /\ last' = Done("getActiveLesson", 0, "none",
                          getActiveLesson(masterFile, lessonFiles))
          /\ statusBar' = updateStatusBar(masterFile, lessonFiles)
  /\ UNCHANGED <<storeVars, sessionVars, decoVars, assigned, reviewVars>>

\* lessons.json is written by hand or by another tool
writeMasterFile(text) ==
  /\ masterFile' = File(text)
  /\ last' = Done("writeMaster", 0, "none", Undefined)
  /\ UNCHANGED <<lessonFiles, statusBar, sessionVars, decoVars, assigned, reviewVars>>

\* lessons.json is removed by hand or by another tool
unlinkMasterFile ==
  /\ masterFile.exists
  /\ masterFile' = NoFile
  /\ last' = Done("unlinkMaster", 0, "none", Undefined)
  /\ UNCHANGED <<lessonFiles, statusBar, sessionVars, decoVars, assigned, reviewVars>>

\* the file lesson-<id>.json is rewritten by hand or by another tool
writeLessonFile(id, text) ==
  /\ lessonFiles[id].exists
  /\ lessonFiles' = [lessonFiles EXCEPT ![id] = File(text)]
  /\ last' = Done("writeLesson", id, "none", Undefined)
  /\ UNCHANGED <<masterFile, statusBar, sessionVars, decoVars, assigned, reviewVars>>

\* the file lesson-<id>.json is removed by hand or by another tool
unlinkLessonFile(id) ==
  /\ lessonFiles[id].exists
  /\ lessonFiles' = [lessonFiles EXCEPT ![id] = NoFile]
  /\ last' = Done("unlink", id, "none", Undefined)
  /\ UNCHANGED <<masterFile, statusBar, sessionVars, decoVars, assigned, reviewVars>>

(***************************************************************************)
(* DecorationManager (src/src/decorationManager.ts): the ranges it keeps.  *)
(***************************************************************************)
\* (mutant) the ranges are added to the ones that are highlighted
applyDecorationsAdding(editor, ranges) ==
  /\ currentRanges' = currentRanges \o ranges
  /\ currentEditor' = editor

\* applyDecorationsForRanges(editor, ranges)
applyDecorationsForRanges(editor, ranges) ==
  /\ currentRanges' = ranges
  /\ currentEditor' = editor

\* clearDecorations() and requestClear()
requestClear ==
  /\ currentRanges' = <<>>
  /\ currentEditor' = Undefined

(***************************************************************************)
(* The annotation session (src/src/notesPanel.ts) and the addNotes         *)
(* command (src/unnamed/part_001).                                         *)
(***************************************************************************)
\* the workspace folder, as the first atom of an absolute path
WorkspaceRoot == "/ws/"

\* vscode.workspace.asRelativePath(path): a path below the workspace folder
\* loses the folder, any other path is returned as it is
asRelativePath(path) ==
  IF path # <<>> /\ Head(path) = WorkspaceRoot THEN Tail(path) ELSE path

SelectionInfo(file, ranges) ==
  Obj(<< <<"file", Str(file)>>, <<"ranges", Arr(ranges)>> >>)

\* (mutant) no range is taken for selected already
RangeExistsNever(ranges, r) == FALSE

\* currentRanges.some(([start, end]) => start === r[0] && end === r[1])
RangeExists(ranges, r) ==
  \E i \in 1..Len(ranges) :
    ranges[i].v[1] = r.v[1] /\ ranges[i].v[2] = r.v[2]

\* (mutant) the panel is disposed of but the selection is kept
disposePanelKeepingSelection ==
  /\ notesPanel' = FALSE
  /\ currentSelection' = currentSelection
  /\ currentText' = <<>>

\* panel-closed state of notesPanel.ts, as set by onDidDispose
disposePanel ==
  /\ notesPanel' = FALSE
  /\ currentSelection' = Undefined
  /\ currentText' = <<>>

\* code-highlight.addNotes with the active editor's file (Undefined for no
\* editor) and its selection as a line range (Undefined when it is empty)
addNotes(file, sel) ==
  LET activeLesson == getActiveLesson(masterFile, lessonFiles)
      refreshed == updateStatusBar(masterFile, lessonFiles)
  IN
  /\ UNCHANGED <<assigned, reviewVars>>
  /\ IF file = Undefined
     THEN /\ last' = Done("addNotes", 0, "NoEditor", Undefined)
          /\ UNCHANGED <<storeVars, statusBar, sessionVars, decoVars>>
     ELSE IF ~Truthy(activeLesson)
     THEN /\ statusBar' = refreshed
          /\ last' = Done("addNotes", 0, "NoActiveLesson", Undefined)
          /\ UNCHANGED <<storeVars, sessionVars, decoVars>>
     ELSE IF notesPanel
     THEN IF sel = Undefined
          THEN /\ statusBar' = refreshed
               /\ last' = Done("addNotes", sel, "EmptySelection", Undefined)
               /\ UNCHANGED <<storeVars, sessionVars, decoVars>>
          ELSE IF RangeExists(currentRanges, sel)
          THEN /\ statusBar' = refreshed
               /\ last' = Done("addNotes", sel, "AlreadySelected", Undefined)
               /\ UNCHANGED <<storeVars, sessionVars, decoVars>>
          ELSE LET updatedRanges == Append(currentRanges, sel) IN
               /\ applyDecorationsForRanges(file, updatedRanges)
               /\ currentSelection' =
                    IF currentSelection = Undefined
                    THEN SelectionInfo(file.v, updatedRanges)
                    ELSE Put(Put(currentSelection, "ranges", Arr(updatedRanges)),
                             "file", file)
               /\ statusBar' = refreshed
               /\ last' = Done("addNotes", sel, "none", Undefined)
               /\ UNCHANGED <<storeVars, notesPanel, currentText>>
     ELSE IF sel = Undefined
     THEN /\ notesPanel' = TRUE
          /\ currentText' = <<>>
          /\ statusBar' = refreshed
          /\ last' = Done("addNotes", sel, "none", Undefined)
          /\ UNCHANGED <<storeVars, currentSelection, decoVars>>
     ELSE /\ applyDecorationsForRanges(file, <<sel>>)
          /\ currentSelection' = SelectionInfo(file.v, <<sel>>)
          /\ notesPanel' = TRUE
          /\ currentText' = <<>>
          /\ statusBar' = refreshed
          /\ last' = Done("addNotes", sel, "none", Undefined)
          /\ UNCHANGED storeVars

\* createOrShowNotesPanel(context, selectionInfo, isGeneralNote) with the
\* active editor's file (Undefined for no editor)
createOrShowNotesPanel(editor, selectionInfo, isGeneralNote) ==
  LET selection ==
        IF selectionInfo # Undefined THEN selectionInfo
        ELSE IF ~isGeneralNote /\ editor # Undefined
        THEN SelectionInfo(editor.v, currentRanges)
        ELSE currentSelection
  IN
  /\ currentSelection' = selection
  /\ IF /\ selectionInfo # Undefined /\ editor # Undefined
        /\ Len(Get(selectionInfo, "ranges").v) > 0
     THEN applyDecorationsForRanges(editor, Get(selectionInfo, "ranges").v)
     ELSE UNCHANGED decoVars
  /\ notesPanel' = TRUE
  /\ currentText' =
       IF notesPanel
       THEN IF /\ selection # Undefined /\ selectionInfo # Undefined
               /\ Get(selection, "file") # Get(selectionInfo, "file")
            THEN <<>> ELSE currentText
       ELSE <<>>
  /\ last' = Done("createOrShowNotesPanel", 0, "none", selectionInfo)
  /\ UNCHANGED <<storeVars, statusBar, assigned, reviewVars>>

\* (mutant) the ranges are spliced at any index, one below 0 counting from
\* the end
removeRangeUnchecked(ranges, editor, rangeIndex) ==
  IF editor = Undefined \/ rangeIndex >= Len(ranges) \/ ranges = <<>>
  THEN ranges
  ELSE IF rangeIndex < 0
  THEN SubSeq(ranges, 1, Len(ranges) - 1)
  ELSE Splice(ranges, rangeIndex + 1)

\* decorationManager.removeRange(rangeIndex): the ranges it keeps
removeRange(ranges, editor, rangeIndex) ==
  IF editor = Undefined \/ rangeIndex < 0 \/ rangeIndex >= Len(ranges)
  THEN ranges
  ELSE Splice(ranges, rangeIndex + 1)

\* the webview's 'removeRange' message with the index of a range, from 0
removeRangeMessage(rangeIndex) ==
  LET ranges == removeRange(currentRanges, currentEditor, rangeIndex) IN
  /\ notesPanel
  /\ IF currentSelection # Undefined
     THEN /\ currentRanges' = ranges
          /\ currentSelection' = Put(currentSelection, "ranges", Arr(ranges))
     ELSE UNCHANGED <<currentRanges, currentSelection>>
  /\ last' = Done("removeRange", rangeIndex, "none", Undefined)
  /\ UNCHANGED <<storeVars, statusBar, notesPanel, currentText, currentEditor,
                 assigned, reviewVars>>

\* the webview's 'updateText' message with the text of its textarea
updateTextMessage(text) ==
  /\ notesPanel
  /\ currentText' = text
  /\ last' = Done("updateText", 0, "none", Undefined)
  /\ UNCHANGED <<storeVars, statusBar, notesPanel, currentSelection, decoVars,
                 assigned, reviewVars>>

\* the user closes the panel: only onDidDispose runs
closePanel ==
  /\ notesPanel
  /\ disposePanel
  /\ last' = Done("closePanel", 0, "none", Undefined)
  /\ UNCHANGED <<storeVars, statusBar, decoVars, assigned, reviewVars>>

\* (mutant) every range is kept
FilterNothing(ranges) == ranges

\* selection.ranges.filter(([start, end]) => !(start > end))
RECURSIVE FilterValid(_)
FilterValid(ranges) ==
  IF ranges = <<>> THEN <<>>
  ELSE IF Head(ranges).v[1].v > Head(ranges).v[2].v
       THEN FilterValid(Tail(ranges))
       ELSE <<Head(ranges)>> \o FilterValid(Tail(ranges))

GeneralNote(markdown) ==
  Obj(<< <<"type", Str(<<"general">>)>>, <<"markdown", Str(Trim(markdown))>> >>)

CodeNote(file, ranges, markdown) ==
  Obj(<< <<"type", Str(<<"code">>)>>, <<"file", Str(asRelativePath(file))>>,
         <<"ranges", Arr(ranges)>>, <<"markdown", Str(Trim(markdown))>> >>)

\* note.type === 'code'
IsCodeNote(note) == Get(note, "type") = Str(<<"code">>)

\* (mutant) ranges that are all invalid are not refused
saveNoteErrorNoRangeCheck(activeLesson, selection) ==
  IF ~Truthy(activeLesson) THEN "NoActiveLesson"
  ELSE IF Get(activeLesson, "notes").t # "arr" THEN "TypeError"
  ELSE "none"

\* saveNoteToLesson(markdown, selection) with the active lesson it reads:
\* the error it throws, "none" if none
saveNoteError(activeLesson, selection) ==
  IF ~Truthy(activeLesson) THEN "NoActiveLesson"
  ELSE IF /\ selection # Undefined
          /\ Len(Get(selection, "ranges").v) # 0
          /\ Len(FilterValid(Get(selection, "ranges").v)) = 0
  THEN "NoValidRanges"
  ELSE IF Get(activeLesson, "notes").t # "arr" THEN "TypeError"
  ELSE "none"

\* (mutant) a code note is built whenever the session has a selection
newNoteOfSelection(markdown, selection) ==
  IF selection = Undefined
  THEN GeneralNote(markdown)
  ELSE CodeNote(Get(selection, "file").v,
                FilterValid(Get(selection, "ranges").v), markdown)

\* saveNoteToLesson(markdown, selection): the note it builds
newNote(markdown, selection) ==
  IF selection = Undefined \/ Len(Get(selection, "ranges").v) = 0
  THEN GeneralNote(markdown)
  ELSE CodeNote(Get(selection, "file").v,
                FilterValid(Get(selection, "ranges").v), markdown)

\* (mutant) the note replaces the notes of the lesson
PushNoteReplacing(activeLesson, note) ==
  Put(activeLesson, "notes", Arr(<<note>>))

\* activeLesson.notes.push(note)
PushNote(activeLesson, note) ==
  Put(activeLesson, "notes", Arr(Append(Get(activeLesson, "notes").v, note)))

\* the notes of all stored lessons, counted
NotesIn(file) ==
  LET p == Parse(file.text) IN
  IF file.exists /\ p.ok /\ Get(p.val, "notes").t = "arr"
  THEN Len(Get(p.val, "notes").v) ELSE 0

RECURSIVE SumNotes(_)
SumNotes(S) ==
  IF S = {} THEN 0
  ELSE LET id == CHOOSE x \in S : TRUE
       IN NotesIn(lessonFiles[id]) + SumNotes(S \ {id})

TotalNotes == SumNotes(Ids)

\* (mutant) a save that fails empties the draft
saveMessageDroppingDraft(text) ==
  LET activeLesson == getActiveLesson(masterFile, lessonFiles)
      error == saveNoteError(activeLesson, currentSelection)
      note == newNote(text, currentSelection)
  IN
  /\ notesPanel
  /\ statusBar' = updateStatusBar(masterFile, lessonFiles)
  /\ UNCHANGED <<assigned, reviewVars>>
  /\ IF error # "none"
     THEN /\ last' = Done("save", currentSelection, error, Undefined)
          /\ currentText' = <<>>
          /\ UNCHANGED <<storeVars, notesPanel, currentSelection, decoVars>>
     ELSE /\ lessonFiles' = saveLesson(lessonFiles, PushNote(activeLesson, note))
          /\ requestClear
          /\ disposePanel
          /\ last' = Done("save", currentSelection, "none", note)
          /\ UNCHANGED masterFile

\* (mutant) the panel is disposed when the save fails as well
saveMessageClosing(text) ==
  LET activeLesson == getActiveLesson(masterFile, lessonFiles)
      error == saveNoteError(activeLesson, currentSelection)
      note == newNote(text, currentSelection)
  IN
  /\ notesPanel
  /\ statusBar' = updateStatusBar(masterFile, lessonFiles)
  /\ UNCHANGED <<assigned, reviewVars>>
  /\ requestClear
  /\ disposePanel
  /\ IF error # "none"
     THEN /\ last' = Done("save", currentSelection, error, Undefined)
          /\ UNCHANGED storeVars
     ELSE /\ lessonFiles' = saveLesson(lessonFiles, PushNote(activeLesson, note))
          /\ last' = Done("save", currentSelection, "none", note)
          /\ UNCHANGED masterFile

\* the webview's 'save' message with the text of its textarea
saveMessage(text) ==
  LET activeLesson == getActiveLesson(masterFile, lessonFiles)
      error == saveNoteError(activeLesson, currentSelection)
      note == newNote(text, currentSelection)
  IN
  /\ notesPanel
  /\ statusBar' = updateStatusBar(masterFile, lessonFiles)
  /\ UNCHANGED <<assigned, reviewVars>>
  /\ IF error # "none"
     THEN /\ last' = Done("save", currentSelection, error, Undefined)
          /\ UNCHANGED <<storeVars, sessionVars, decoVars>>
     ELSE /\ lessonFiles' = saveLesson(lessonFiles, PushNote(activeLesson, note))
          /\ requestClear
          /\ disposePanel
          /\ last' = Done("save", currentSelection, "none", note)
          /\ UNCHANGED masterFile

\* (mutant) the 'cancel' message leaves the highlight
cancelMessageKeepingHighlight ==
  /\ notesPanel
  /\ disposePanel
  /\ last' = Done("cancel", 0, "none", Undefined)
  /\ UNCHANGED <<storeVars, statusBar, decoVars, assigned, reviewVars>>

\* the webview's 'cancel' message
cancelMessage ==
  /\ notesPanel
  /\ requestClear
  /\ disposePanel
  /\ last' = Done("cancel", 0, "none", Undefined)
  /\ UNCHANGED <<storeVars, statusBar, assigned, reviewVars>>

(***************************************************************************)
(* The review navigator (src/src/notesReview.ts).  A command runs up to    *)
(* its next await in one step; what it awaits is a task, which the host    *)
(* resumes in a later step, in any order.                                  *)
(***************************************************************************)
\* the controller and its provider after construction, and after stop()
NoReview ==
  [lessonNotes |-> <<>>, currentIndex |-> 0, previewOpened |-> FALSE,
   reviewMode |-> FALSE, markdown |-> Str(<<>>)]

\* a command suspended at the request pc, within showCurrent for note
Task(pc, note) == [pc |-> pc, note |-> note]

\* (mutant) the preview is opened for every note that is displayed
PreviewTaskAlways(r) == Task("showPreviewToSide", Undefined)

\* the task showCurrent ends with: the preview is opened once, then focused
PreviewTask(r) ==
  Task(IF r.previewOpened THEN "focusPreviewPanel" ELSE "showPreviewToSide",
       Undefined)

\* showCurrent() up to its first await, for the controller fields r and the
\* other suspended commands ts
showCurrent(r, ts) ==
  LET note == IF r.currentIndex + 1 \in 1..Len(r.lessonNotes)
              THEN r.lessonNotes[r.currentIndex + 1] ELSE Undefined
  IN
  IF note = Undefined
  THEN /\ review' = r
       /\ tasks' = ts
       /\ UNCHANGED decoVars
  ELSE IF IsCodeNote(note)
  THEN /\ review' = r
       /\ tasks' = Append(ts, Task("openTextDocument", note))
       /\ UNCHANGED decoVars
  ELSE /\ requestClear
       /\ review' = [r EXCEPT !.markdown = Get(note, "markdown")]
       /\ tasks' = Append(ts, PreviewTask(r))

\* (mutant) a lesson without notes is reviewed as well
startWithoutNotesCheck ==
  LET activeLesson == getActiveLesson(masterFile, lessonFiles) IN
  /\ Len(tasks) < MaxTasks
  /\ statusBar' = updateStatusBar(masterFile, lessonFiles)
  /\ IF ~Truthy(activeLesson)
     THEN /\ last' = Done("start", 0, "NoActiveLesson", Undefined)
          /\ UNCHANGED reviewVars
     ELSE /\ review' = [review EXCEPT
                          !.lessonNotes = Get(activeLesson, "notes").v,
                          !.currentIndex = 0, !.previewOpened = FALSE]
          /\ tasks' = Append(tasks, Task("setContext", Undefined))
          /\ last' = Done("start", 0, "none", Undefined)
  /\ UNCHANGED <<storeVars, sessionVars, decoVars, assigned>>

\* code-highlight.reviewNotes: start() up to its first await
start ==
  LET activeLesson == getActiveLesson(masterFile, lessonFiles) IN
  /\ Len(tasks) < MaxTasks
  /\ statusBar' = updateStatusBar(masterFile, lessonFiles)
  /\ IF ~Truthy(activeLesson)
     THEN /\ last' = Done("start", 0, "NoActiveLesson", Undefined)
          /\ UNCHANGED reviewVars
     ELSE IF Get(activeLesson, "notes").t # "arr"
     THEN /\ last' = Done("start", 0, "TypeError", Undefined)
          /\ UNCHANGED reviewVars
     ELSE IF Len(Get(activeLesson, "notes").v) = 0
     THEN /\ last' = Done("start", 0, "NoNotes", Undefined)
          /\ UNCHANGED reviewVars
     ELSE /\ review' = [review EXCEPT
                          !.lessonNotes = Get(activeLesson, "notes").v,
                          !.currentIndex = 0, !.previewOpened = FALSE]
          /\ tasks' = Append(tasks, Task("setContext", Undefined))
          /\ last' = Done("start", 0, "none", Undefined)
  /\ UNCHANGED <<storeVars, sessionVars, decoVars, assigned>>

\* (mutant) stop() leaves the index as it is
stopKeepingIndex ==
  /\ Len(tasks) < MaxTasks
  /\ review' = [review EXCEPT !.lessonNotes = <<>>, !.previewOpened = FALSE]
  /\ requestClear
  /\ tasks' = Append(tasks, Task("setContextOff", Undefined))
  /\ last' = Done("stop", 0, "none", Undefined)
  /\ UNCHANGED <<storeVars, statusBar, sessionVars, assigned>>

\* (mutant) stop() leaves the preview flag as it is
stopKeepingPreview ==
  /\ Len(tasks) < MaxTasks
  /\ review' = [review EXCEPT !.lessonNotes = <<>>, !.currentIndex = 0]
  /\ requestClear
  /\ tasks' = Append(tasks, Task("setContextOff", Undefined))
  /\ last' = Done("stop", 0, "none", Undefined)
  /\ UNCHANGED <<storeVars, statusBar, sessionVars, assigned>>

\* code-highlight.exitReviewNotes: stop() up to its first await
stop ==
  /\ Len(tasks) < MaxTasks
  /\ review' = [review EXCEPT !.lessonNotes = <<>>, !.currentIndex = 0,
                              !.previewOpened = FALSE]
  /\ requestClear
  /\ tasks' = Append(tasks, Task("setContextOff", Undefined))
  /\ last' = Done("stop", 0, "none", Undefined)
  /\ UNCHANGED <<storeVars, statusBar, sessionVars, assigned>>

\* (mutant) next() walks the notes the active lesson has now
nextReloading ==
  LET activeLesson == getActiveLesson(masterFile, lessonFiles)
      notes == IF Truthy(activeLesson) THEN Get(activeLesson, "notes")
               ELSE Arr(<<>>)
      r == [review EXCEPT !.lessonNotes =
                            IF notes.t = "arr" THEN notes.v ELSE <<>>]
  IN
  /\ Len(tasks) < MaxTasks
  /\ IF Len(r.lessonNotes) = 0
     THEN /\ last' = Done("next", 0, "none", Undefined)
          /\ review' = r
          /\ UNCHANGED <<tasks, decoVars>>
     ELSE IF r.currentIndex >= Len(r.lessonNotes) - 1
     THEN /\ last' = Done("next", 0, "EndReached", Undefined)
          /\ review' = r
          /\ UNCHANGED <<tasks, decoVars>>
     ELSE /\ showCurrent([r EXCEPT !.currentIndex = @ + 1], tasks)
          /\ last' = Done("next", 0, "none", Undefined)
  /\ UNCHANGED <<storeVars, statusBar, sessionVars, assigned>>

\* (mutant) next() steps on without the test for the last note
nextUnbounded ==
  /\ Len(tasks) < MaxTasks
  /\ IF Len(review.lessonNotes) = 0
     THEN /\ last' = Done("next", 0, "none", Undefined)
          /\ UNCHANGED <<reviewVars, decoVars>>
     ELSE /\ showCurrent([review EXCEPT !.currentIndex = @ + 1], tasks)
          /\ last' = Done("next", 0, "none", Undefined)
  /\ UNCHANGED <<storeVars, statusBar, sessionVars, assigned>>

\* code-highlight.reviewNextNote: next() up to its first await
next ==
  /\ Len(tasks) < MaxTasks
  /\ IF Len(review.lessonNotes) = 0
     THEN /\ last' = Done("next", 0, "none", Undefined)
          /\ UNCHANGED <<reviewVars, decoVars>>
     ELSE IF review.currentIndex >= Len(review.lessonNotes) - 1
     THEN /\ last' = Done("next", 0, "EndReached", Undefined)
          /\ UNCHANGED <<reviewVars, decoVars>>
     ELSE /\ showCurrent([review EXCEPT !.currentIndex = @ + 1], tasks)
          /\ last' = Done("next", 0, "none", Undefined)
  /\ UNCHANGED <<storeVars, statusBar, sessionVars, assigned>>

\* (mutant) prev() without the test for an empty snapshot
prevWithoutNotesCheck ==
  /\ Len(tasks) < MaxTasks
  /\ IF review.currentIndex <= 0
     THEN /\ last' = Done("prev", 0, "StartReached", Undefined)
          /\ UNCHANGED <<reviewVars, decoVars>>
     ELSE /\ showCurrent([review EXCEPT !.currentIndex = @ - 1], tasks)
          /\ last' = Done("prev", 0, "none", Undefined)
  /\ UNCHANGED <<storeVars, statusBar, sessionVars, assigned>>

\* code-highlight.reviewPrevNote: prev() up to its first await
prev ==
  /\ Len(tasks) < MaxTasks
  /\ IF Len(review.lessonNotes) = 0
     THEN /\ last' = Done("prev", 0, "none", Undefined)
          /\ UNCHANGED <<reviewVars, decoVars>>
     ELSE IF review.currentIndex <= 0
     THEN /\ last' = Done("prev", 0, "StartReached", Undefined)
          /\ UNCHANGED <<reviewVars, decoVars>>
     ELSE /\ showCurrent([review EXCEPT !.currentIndex = @ - 1], tasks)
          /\ last' = Done("prev", 0, "none", Undefined)
  /\ UNCHANGED <<storeVars, statusBar, sessionVars, assigned>>

\* the host answers the request of the i-th suspended command, which runs on
\* up to its next await or to its end
resumeTask(i) ==
  LET task == tasks[i]
      others == Splice(tasks, i)
      ranges == Get(task.note, "ranges").v
  IN
  /\ i \in 1..Len(tasks)
  /\ CASE task.pc = "setContext" ->
            showCurrent([review EXCEPT !.reviewMode = TRUE], others)
       [] task.pc = "openTextDocument" ->
            /\ applyDecorationsForRanges(
                 Str(<<WorkspaceRoot>> \o Get(task.note, "file").v), ranges)
            /\ IF Len(ranges) = 0
               THEN /\ tasks' = others
                    /\ UNCHANGED review
               ELSE /\ review' =
                         [review EXCEPT !.markdown = Get(task.note, "markdown")]
                    /\ tasks' = Append(others, PreviewTask(review))
       [] task.pc = "showPreviewToSide" ->
            /\ review' = [review EXCEPT !.previewOpened = TRUE]
            /\ tasks' = others
            /\ UNCHANGED decoVars
       [] task.pc = "focusPreviewPanel" ->
            /\ tasks' = others
            /\ UNCHANGED <<review, decoVars>>
       [] task.pc = "setContextOff" ->
            /\ review' = [review EXCEPT !.reviewMode = FALSE]
            /\ tasks' = Append(others, Task("closeActiveEditor", Undefined))
            /\ UNCHANGED decoVars
       [] task.pc = "closeActiveEditor" ->
            /\ tasks' = others
            /\ UNCHANGED <<review, decoVars>>
  /\ last' = Done("resume", 0, "none", Undefined)
  /\ UNCHANGED <<storeVars, statusBar, sessionVars, assigned>>

\* the host fails to open the file of a code note: showCurrent throws
rejectTask(i) ==
  /\ i \in 1..Len(tasks)
  /\ tasks[i].pc = "openTextDocument"
  /\ tasks' = Splice(tasks, i)
  /\ last' = Done("reject", 0, "OpenFailed", Undefined)
  /\ UNCHANGED <<storeVars, statusBar, sessionVars, decoVars, review, assigned>>

(***************************************************************************)
(* The specification: the lesson store under its operations and commits.   *)
(***************************************************************************)
\* titles given to createLesson: text padded with white space
Titles == { <<" ", "a", " ">> }
\* titles that are empty once trimmed
BlankTitles == { <<" ">> }
\* the files of the active editor, none when no editor is open
Editors == { Str(<<WorkspaceRoot, "a.ts">>) }
\* the selections of the active editor, as [start.line, end.line]
Selections == { Arr(<<Num(0), Num(1)>>) }
\* the texts of the webview's textarea
Texts == { <<" ", "n">> }

Init ==
  /\ masterFile = NoFile
  /\ lessonFiles = [id \in Ids |-> NoFile]
  /\ statusBar = Null
  /\ notesPanel = FALSE
  /\ currentSelection = Undefined
  /\ currentText = <<>>
  /\ currentRanges = <<>>
  /\ currentEditor = Undefined
  /\ review = NoReview
  /\ tasks = <<>>
  /\ assigned = {}
  /\ last = Done("init", 0, "none", Undefined)

Next ==
  \/ \E title \in Titles : createLesson(title)
  \/ \E id \in Ids : setActiveLesson(id)
  \/ \E id \in Ids : deleteLesson(id)
  \/ \E file \in Editors \cup {Undefined}, sel \in Selections \cup {Undefined} :
       addNotes(file, sel)
  \/ \E text \in Texts :
       notesPanel /\ TotalNotes < MaxNotes /\ saveMessage(text)
  \/ cancelMessage

Spec == Init /\ [][Next]_vars

\* the same, with createLesson also given titles that are blank
NextBlank ==
  \/ Next
  \/ \E title \in BlankTitles : createLesson(title)

SpecBlank == Init /\ [][NextBlank]_vars

\* the store operations, with lesson files removed from outside
NextUnlink ==
  \/ \E title \in Titles : createLesson(title)
  \/ \E id \in Ids : setActiveLesson(id)
  \/ \E id \in Ids : deleteLesson(id)
  \/ \E id \in Ids : unlinkLessonFile(id)

SpecUnlink == Init /\ [][NextUnlink]_vars

\* the Lesson values handed to saveLesson
SavedNotes ==
  { <<>>,
    <<GeneralNote(<<>>)>>,
    <<CodeNote(<<WorkspaceRoot, "a.ts">>,
               <<Arr(<<Num(0), Num(1)>>), Arr(<<Num(4), Num(4)>>)>>,
               <<"n", " ", "m">>),
      GeneralNote(<<"n">>)>> }

SavedLessons ==
  { Obj(<< <<"id", Num(id)>>, <<"title", Str(title)>>, <<"notes", Arr(notes)>> >>) :
      id \in Ids, title \in { <<>>, <<"a", " ", "b">> }, notes \in SavedNotes }

\* saveLesson and getLessonById called with any of these values
NextSave ==
  \/ \E lesson \in SavedLessons : saveLessonCall(lesson)
  \/ \E id \in Ids : getLessonByIdCall(id)

SpecSave == Init /\ [][NextSave]_vars

\* contents of lessons.json that are not a master state: an empty file, a
\* truncated one, null, an object without lessons, an array
MasterTexts ==
  { <<>>,
    <<P("{")>>,
    <<P("{"), Key("lessons"), P(":"), P("["), P("]")>>,
    <<Null>>,
    <<P("{"), P("}")>>,
    <<P("{"), Key("activeLessonId"), P(":"), Null, P("}")>>,
    <<P("["), P("]")>> }

\* the store operations over a lessons.json written from outside
NextCorrupt ==
  \/ \E title \in Titles : createLesson(title)
  \/ \E id \in Ids : setActiveLesson(id)
  \/ \E id \in Ids : deleteLesson(id)
  \/ getAllLessonsCall
  \/ getActiveLessonCall
  \/ \E text \in MasterTexts : writeMasterFile(text)
  \/ unlinkMasterFile

SpecCorrupt == Init /\ [][NextCorrupt]_vars

\* the state after activation and createLesson(" a ") on a fresh workspace
FirstLesson == NewLesson(1, <<" ", "a", " ">>)

InitSession ==
  /\ masterFile = File(Stringify(CreatedState(DefaultState, FirstLesson)))
  /\ lessonFiles =
       [id \in Ids |-> IF id = 1 THEN File(Stringify(FirstLesson)) ELSE NoFile]
  /\ statusBar = updateStatusBar(masterFile, lessonFiles)
  /\ notesPanel = FALSE
  /\ currentSelection = Undefined
  /\ currentText = <<>>
  /\ currentRanges = <<>>
  /\ currentEditor = Undefined
  /\ review = NoReview
  /\ tasks = <<>>
  /\ assigned = {1}
  /\ last = Done("createLesson", 1, "none", FirstLesson)

\* two files in the editor and two selections
Editors2 == Editors \cup { Str(<<WorkspaceRoot, "b.ts">>) }
Selections2 == Selections \cup { Arr(<<Num(2), Num(5)>>) }
\* the indexes the webview sends with 'removeRange'
RangeIndexes == {0, 1}

\* one session after another over a lesson: ranges added and removed in two
\* files, the draft edited, the panel cancelled or closed
NextRanges ==
  \/ \E file \in Editors2 \cup {Undefined}, sel \in Selections2 \cup {Undefined} :
       addNotes(file, sel)
  \/ \E rangeIndex \in RangeIndexes \cup {-1} : removeRangeMessage(rangeIndex)
  \/ \E text \in Texts : updateTextMessage(text)
  \/ cancelMessage
  \/ closePanel

SpecRanges == InitSession /\ [][NextRanges]_vars

\* selections handed to createOrShowNotesPanel, with ranges that end before
\* they start
PanelSelections ==
  { SelectionInfo(<<WorkspaceRoot, "a.ts">>, ranges) :
      ranges \in { << Arr(<<Num(5), Num(2)>>) >>,
                   << Arr(<<Num(5), Num(2)>>), Arr(<<Num(2), Num(5)>>) >> } }
\* a lesson file cut short while it was written
LessonTexts == { <<P("{")>> }

\* commits of sessions opened with any selection, over a lesson that is
\* deleted, removed or damaged meanwhile
NextCommit ==
  \/ \E editor \in Editors \cup {Undefined},
        selectionInfo \in PanelSelections \cup {Undefined},
        isGeneralNote \in BOOLEAN :
       createOrShowNotesPanel(editor, selectionInfo, isGeneralNote)
  \/ \E file \in Editors, sel \in Selections : addNotes(file, sel)
  \/ \E rangeIndex \in RangeIndexes : removeRangeMessage(rangeIndex)
  \/ \E text \in Texts :
       notesPanel /\ TotalNotes < MaxNotes /\ saveMessage(text)
  \/ \E id \in Ids : deleteLesson(id)
  \/ \E id \in Ids : unlinkLessonFile(id)
  \/ \E id \in Ids, text \in LessonTexts : writeLessonFile(id, text)

SpecCommit == InitSession /\ [][NextCommit]_vars

\* the note another writer appends to a lesson file
ExternalNote == GeneralNote(<<"x">>)

\* another writer reads lesson-<id>.json and writes it back with one more note
externalAppend(id) ==
  LET body == getLessonById(lessonFiles, Num(id)) IN
  /\ body # Null
  /\ writeLessonFile(id, Stringify(PushNote(body, ExternalNote)))

\* sessions and commits while another writer appends to the lesson files
NextExternal ==
  \/ \E file \in Editors, sel \in Selections \cup {Undefined} :
       addNotes(file, sel)
  \/ \E text \in Texts :
       notesPanel /\ TotalNotes < MaxStoredNotes /\ saveMessage(text)
  \/ \E id \in Ids : TotalNotes < MaxStoredNotes /\ externalAppend(id)
  \/ \E text \in Texts : updateTextMessage(text)
  \/ cancelMessage
  \/ closePanel

SpecExternal == InitSession /\ [][NextExternal]_vars

\* the notes of the lessons that are reviewed
ReviewNotes ==
  { <<>>,
    <<CodeNote(<<WorkspaceRoot, "a.ts">>, <<Arr(<<Num(0), Num(1)>>)>>, <<"n">>),
      GeneralNote(<<"m">>),
      CodeNote(<<WorkspaceRoot, "b.ts">>,
               <<Arr(<<Num(2), Num(5)>>), Arr(<<Num(0), Num(1)>>)>>, <<"o">>)>> }

ReviewLessons == { Put(FirstLesson, "notes", Arr(notes)) : notes \in ReviewNotes }

\* the review commands and the host's answers, over a lesson that is saved
\* and removed meanwhile
NextReview ==
  \/ start
  \/ next
  \/ prev
  \/ stop
  \/ \E i \in 1..MaxTasks : resumeTask(i)
  \/ \E i \in 1..MaxTasks : rejectTask(i)
  \/ \E lesson \in ReviewLessons : saveLessonCall(lesson)
  \/ \E id \in Ids : unlinkLessonFile(id)

SpecReview == InitSession /\ [][NextReview]_vars

\* the reviewed lesson, and what it is rewritten to during the review
ReviewedLesson ==
  Put(FirstLesson, "notes",
      Arr(<<CodeNote(<<"a.ts">>, <<Arr(<<Num(0), Num(1)>>)>>, <<"n">>),
            GeneralNote(<<"m">>)>>))
RewrittenLesson == Put(FirstLesson, "notes", Arr(<<GeneralNote(<<"o">>)>>))
OtherLesson == NewLesson(2, <<"b">>)
SnapshotIds == {1, 2}

\* two lessons, the first with two notes and active
InitSnapshot ==
  /\ masterFile =
       File(Stringify(Put(CreatedState(CreatedState(DefaultState, ReviewedLesson),
                                       OtherLesson),
                          "activeLessonId", Num(1))))
  /\ lessonFiles =
       [id \in Ids |-> IF id = 1 THEN File(Stringify(ReviewedLesson))
                       ELSE IF id = 2 THEN File(Stringify(OtherLesson))
                       ELSE NoFile]
  /\ statusBar = updateStatusBar(masterFile, lessonFiles)
  /\ notesPanel = FALSE
  /\ currentSelection = Undefined
  /\ currentText = <<>>
  /\ currentRanges = <<>>
  /\ currentEditor = Undefined
  /\ review = NoReview
  /\ tasks = <<>>
  /\ assigned = {1, 2}
  /\ last = Done("setActiveLesson", 1, "none", Undefined)

\* a review, one command at a time, while the reviewed lesson is rewritten,
\* committed to, deleted or replaced as the active lesson
NextSnapshot ==
  \/ tasks = <<>> /\ start
  \/ tasks = <<>> /\ next
  \/ tasks = <<>> /\ stop
  \/ \E i \in 1..MaxTasks : resumeTask(i)
  \/ saveLessonCall(RewrittenLesson)
  \/ \E file \in Editors : addNotes(file, Undefined)
  \/ \E text \in Texts :
       notesPanel /\ TotalNotes < MaxStoredNotes /\ saveMessage(text)
  \/ \E id \in SnapshotIds : setActiveLesson(id)
  \/ deleteLesson(1)

SpecSnapshot == InitSnapshot /\ [][NextSnapshot]_vars

\* the notes of a lesson that is reviewed one command at a time
SequentialNotes ==
  <<CodeNote(<<"a.ts">>, <<Arr(<<Num(0), Num(1)>>)>>, <<"n">>),
    CodeNote(<<"b.ts">>, <<Arr(<<Num(2), Num(5)>>), Arr(<<Num(0), Num(1)>>)>>,
             <<"o">>),
    GeneralNote(<<"m">>)>>
SequentialLessons ==
  { Put(FirstLesson, "notes", Arr(notes)) : notes \in {<<>>, SequentialNotes} }

\* the review commands, each invoked after the one before it has returned
NextSequential ==
  \/ tasks = <<>> /\ start
  \/ tasks = <<>> /\ next
  \/ tasks = <<>> /\ prev
  \/ tasks = <<>> /\ stop
  \/ \E i \in 1..MaxTasks : resumeTask(i)
  \/ \E i \in 1..MaxTasks : rejectTask(i)
  \/ \E lesson \in SequentialLessons : saveLessonCall(lesson)

SpecSequential == InitSession /\ [][NextSequential]_vars

\* an annotation session over the first file while the lesson is reviewed,
\* one review command at a time
NextIndependent ==
  \/ \E file \in Editors, sel \in Selections2 : addNotes(file, sel)
  \/ \E rangeIndex \in RangeIndexes : removeRangeMessage(rangeIndex)
  \/ \E text \in Texts :
       notesPanel /\ TotalNotes <= MaxStoredNotes /\ saveMessage(text)
  \/ tasks = <<>> /\ start
  \/ tasks = <<>> /\ next
  \/ tasks = <<>> /\ stop
  \/ \E i \in 1..MaxTasks : resumeTask(i)

SpecIndependent == InitSnapshot /\ [][NextIndependent]_vars

\* the review commands over the reviewed lesson, invoked while earlier ones
\* are suspended, every request answered by the host
NextConcurrent ==
  \/ start
  \/ next
  \/ prev
  \/ \E i \in 1..MaxTasks : resumeTask(i)

SpecConcurrent == InitSnapshot /\ [][NextConcurrent]_vars

\* lessons handed to saveLesson under a title of their own
RetitledLessons == { NewLesson(id, <<"b">>) : id \in {1, 2} }

\* the operations of the store that write, one after another
NextStatus ==
  \/ \E title \in Titles : createLesson(title)
  \/ \E id \in Ids : setActiveLesson(id)
  \/ \E id \in Ids : deleteLesson(id)
  \/ \E lesson \in RetitledLessons : saveLessonCall(lesson)

SpecStatus == InitSession /\ [][NextStatus]_vars

\* sessions with a draft whose commits fail, for want of an active lesson
\* or of a valid range, until a lesson is created or a range is added
NextResume ==
  \/ \E editor \in Editors, selectionInfo \in PanelSelections :
       createOrShowNotesPanel(editor, selectionInfo, FALSE)
  \/ \E file \in Editors, sel \in Selections : addNotes(file, sel)
  \/ \E text \in Texts : updateTextMessage(text)
  \/ \E text \in Texts :
       notesPanel /\ TotalNotes < MaxNotes /\ saveMessage(text)
  \/ deleteLesson(1)
  \/ \E title \in Titles : createLesson(title)

SpecResume == InitSession /\ [][NextResume]_vars

\* lessons are created, annotated and deleted while lessons.json is removed
\* or emptied from outside and the lesson files stay
NextLost ==
  \/ \E title \in Titles : createLesson(title)
  \/ \E id \in Ids : deleteLesson(id)
  \/ \E file \in Editors, sel \in Selections : addNotes(file, sel)
  \/ \E text \in Texts :
       notesPanel /\ TotalNotes < MaxStoredNotes /\ saveMessage(text)
  \/ writeMasterFile(<<>>)
  \/ unlinkMasterFile

SpecLost == InitSession /\ [][NextLost]_vars

\* annotation sessions over two lessons, the active lesson replaced only
\* while a session is open
NextSwitch ==
  \/ \E file \in Editors, sel \in Selections2 \cup {Undefined} :
       addNotes(file, sel)
  \/ \E text \in Texts : updateTextMessage(text)
  \/ \E text \in Texts :
       notesPanel /\ TotalNotes <= MaxStoredNotes /\ saveMessage(text)
  \/ \E id \in SnapshotIds : notesPanel /\ setActiveLesson(id)
  \/ cancelMessage

SpecSwitch == InitSnapshot /\ [][NextSwitch]_vars

(***************************************************************************)
(* The properties.                                                         *)
(***************************************************************************)
\* listLessons(): the summaries of the master state mf, in order
LessonsOf(mf) == getAllLessons(mf).v
\* the ids of listLessons(), in order
LessonIdsOf(mf) ==
  LET lessons == LessonsOf(mf) IN
  [i \in 1..Len(lessons) |-> Get(lessons[i], "id")]
\* MasterState.activeLessonId
ActiveIdOf(mf) == Get(loadMasterState(mf), "activeLessonId")
IsListedIn(mf, id) ==
  LET ids == LessonIdsOf(mf) IN \E i \in 1..Len(ids) : ids[i] = id

\* the same of the current master state
Lessons == LessonsOf(masterFile)
LessonIds == LessonIdsOf(masterFile)
ActiveId == ActiveIdOf(masterFile)
IsListed(id) == IsListedIn(masterFile, id)

\* C1: every id createLesson returns is greater than every id it returned
\* before, also across deleteLesson calls
C1_IdsStrictlyIncrease ==
  [][last'.op = "createLesson" => \A id \in assigned : last'.arg > id]_vars

\* C2: activeLessonId is none or the id of an entry of MasterState.lessons
C2_ActiveIsListed == ActiveId = Null \/ IsListed(ActiveId)

C2_Witness ==
  /\ last.op = "deleteLesson" /\ last.err = "none"
  /\ last.pre.active = Num(last.arg)
  /\ ActiveId # Null

\* C3: every listed id has a stored body with that id and the listed title
C3_ListedHaveBodies ==
  LET lessons == Lessons IN
  \A i \in 1..Len(lessons) :
    LET body == getLessonById(lessonFiles, Get(lessons[i], "id")) IN
    /\ body # Null
    /\ Get(body, "id") = Get(lessons[i], "id")
    /\ Get(body, "title") = Get(lessons[i], "title")

C3_Witness ==
  /\ Len(Lessons) >= 2
  /\ last.op = "deleteLesson" /\ last.err = "none"
  /\ \E i \in 1..Len(Lessons) :
       Len(Get(getLessonById(lessonFiles, LessonIds[i]), "notes").v) > 0

\* C4: right after createLesson returns L, getActiveLesson() is a lesson with
\* L's id and no notes
C4_CreatedIsActive ==
  last.op = "createLesson" =>
    LET active == getActiveLesson(masterFile, lessonFiles) IN
    /\ Get(active, "id") = Get(last.ret, "id")
    /\ Get(active, "notes") = Arr(<<>>)

C4_Witness ==
  /\ last.op = "createLesson"
  /\ Len(Lessons) >= 2
  /\ assigned = Ids

\* C5: deleting the active lesson makes the first remaining lesson active,
\* and none when no lesson remains
C5_DeleteReassignsActive ==
  (last.op = "deleteLesson" /\ last.err = "none"
     /\ last.pre.active = Num(last.arg)) =>
    ActiveId = (IF Len(Lessons) > 0 THEN LessonIds[1] ELSE Null)

C5_Witness ==
  /\ last.op = "deleteLesson" /\ last.err = "none"
  /\ last.pre.active = Num(last.arg)
  /\ Len(Lessons) >= 2
  /\ LessonIds[1] # LessonIds[Len(Lessons)]

\* C6: createLesson assigns (the greatest listed id) + 1, or 1 to the first
\* lesson, appends it, and no two listed lessons share an id
C6_NextIdIsMaxPlusOne ==
  LET ids == LessonIds
      n == Len(ids)
  IN
  /\ \A i, j \in 1..n : ids[i] = ids[j] => i = j
  /\ last.op = "createLesson" =>
       /\ n > 0
       /\ ids[n] = Num(last.arg)
       /\ last.arg = (IF n = 1 THEN 1
                      ELSE MaxOf({ids[i].v : i \in 1..(n - 1)}) + 1)

C6_Witness ==
  /\ last.op = "createLesson"
  /\ Len(Lessons) >= 2
  /\ last.arg > Len(Lessons)

\* C7: createLesson fails for a title that is empty once trimmed, so that no
\* lesson it returns and no listed lesson has an empty title
C7_BlankTitleRejected ==
  /\ last.op = "createLesson" /\ last.err = "none" =>
       Get(last.ret, "title").v # <<>>
  /\ \A i \in 1..Len(Lessons) : Get(Lessons[i], "title").v # <<>>

\* C8: setActiveLesson(id) fails with not-found and changes nothing when id
\* is not listed; otherwise it makes id active and leaves the lessons alone
C8_SetActiveLesson ==
  [][last'.op = "setActiveLesson" =>
       IF IsListed(Num(last'.arg))
       THEN /\ last'.err = "none"
            /\ ActiveIdOf(masterFile') = Num(last'.arg)
            /\ LessonsOf(masterFile') = Lessons
            /\ lessonFiles' = lessonFiles
       ELSE /\ last'.err = "NotFound"
            /\ UNCHANGED storeVars]_vars

C8_Witness ==
  /\ last.op = "setActiveLesson" /\ last.err = "NotFound"
  /\ ActiveId # Null

\* C9: deleteLesson(id) fails with not-found and changes nothing when id is
\* not listed; otherwise it succeeds, also when the body file is missing,
\* and id is then neither listed nor stored
C9_DeleteLesson ==
  [][last'.op = "deleteLesson" =>
       IF IsListed(Num(last'.arg))
       THEN /\ last'.err = "none"
            /\ ~IsListedIn(masterFile', Num(last'.arg))
            /\ ~lessonFiles'[last'.arg].exists
       ELSE /\ last'.err = "NotFound"
            /\ UNCHANGED storeVars]_vars

C9_Witness ==
  /\ last.op = "deleteLesson" /\ last.err = "none"
  /\ ~last.pre.file
  /\ Len(Lessons) > 0

\* C10: saveLesson(L) followed by getLessonById(L.id) returns L
C10_SaveThenGet ==
  last.op = "saveLesson" =>
    getLessonById(lessonFiles, Get(last.ret, "id")) = last.ret

C10_Witness ==
  /\ last.op = "saveLesson"
  /\ Len(Get(last.ret, "notes").v) = 2
  /\ \E id \in Ids : lessonFiles[id].exists /\ id # last.arg

\* what is stored at lessons.json is JSON text
IsJson(mf) == mf.exists /\ Parse(mf.text).ok

\* what is stored at lessons.json is a MasterState record
IsMasterState(mf) ==
  /\ IsJson(mf)
  /\ LET state == Parse(mf.text).val IN
     /\ state.t = "obj"
     /\ Get(state, "activeLessonId").t \in {"null", "num"}
     /\ Get(state, "lessons").t = "arr"

\* C11: with bytes that are not JSON at lessons.json, listLessons() returns
\* the empty sequence and does not fail
C11_NonJsonListsNothing ==
  (last.op = "getAllLessons" /\ masterFile.exists /\ ~IsJson(masterFile)) =>
    /\ last.err = "none"
    /\ last.ret = Arr(<<>>)

C11_Witness ==
  /\ last.op = "getAllLessons"
  /\ masterFile.exists /\ ~IsJson(masterFile) /\ masterFile.text # <<>>
  /\ \E id \in Ids : lessonFiles[id].exists

\* C12: whenever lessons.json is absent, not parsable or not a MasterState
\* record, every store operation acts as on {activeLessonId: none, lessons:
\* empty} and does not throw
C12_CorruptIsDefault ==
  [][~IsMasterState(masterFile) =>
       /\ last'.op = "getAllLessons" =>
            last'.err = "none" /\ last'.ret = Arr(<<>>)
       /\ last'.op = "getActiveLesson" =>
            last'.err = "none" /\ last'.ret = Null
       /\ last'.op = "createLesson" =>
            /\ last'.err = "none" /\ last'.arg = 1
            /\ LessonIdsOf(masterFile') = <<Num(1)>>
            /\ ActiveIdOf(masterFile') = Num(1)
       /\ last'.op \in {"setActiveLesson", "deleteLesson"} =>
            last'.err = "NotFound" /\ UNCHANGED storeVars]_vars

\* the accumulated ranges of a session with the selection sel
Accumulated(sel) == IF sel = Undefined THEN <<>> ELSE Get(sel, "ranges").v

NoDuplicates(ranges) ==
  \A i, j \in 1..Len(ranges) : ranges[i] = ranges[j] => i = j

C19_FileChangeStartsFresh ==
  [][(/\ last'.op = "addNotes" /\ last'.err = "none"
      /\ notesPanel /\ currentSelection # Undefined
      /\ Get(currentSelection', "file") # Get(currentSelection, "file")) =>
       /\ Accumulated(currentSelection') = <<last'.arg>>
       /\ currentText' = <<>>]_vars

\* the notes stored in lesson-<id>.json, none when it is not a lesson
StoredNotesIn(lf, id) ==
  LET body == getLessonById(lf, Num(id)) IN
  IF body # Null /\ Get(body, "notes").t = "arr"
  THEN Get(body, "notes").v ELSE <<>>

StoredNotes(id) == StoredNotesIn(lessonFiles, id)

Starts(range) == range.v[1].v
Ends(range) == range.v[2].v

\* C13: every stored code note has at least one range, and each of its
\* ranges starts no later than it ends
C13_StoredRangesValid ==
  \A id \in Ids : \A i \in 1..Len(StoredNotes(id)) :
    LET note == StoredNotes(id)[i] IN
    IsCodeNote(note) =>
      /\ Len(Get(note, "ranges").v) > 0
      /\ \A k \in 1..Len(Get(note, "ranges").v) :
           Starts(Get(note, "ranges").v[k]) <= Ends(Get(note, "ranges").v[k])

C13_Witness ==
  /\ last.op = "save" /\ last.err = "none"
  /\ IsCodeNote(last.ret)
  /\ \E k \in 1..Len(Accumulated(last.arg)) :
       Starts(Accumulated(last.arg)[k]) > Ends(Accumulated(last.arg)[k])
  /\ \E id \in Ids : Len(StoredNotes(id)) > 0

\* C14: a commit of ranges that all start after they end fails with 'no
\* valid ranges' and leaves the store as it is
C14_AllInvalidRejected ==
  [][(/\ last'.op = "save"
      /\ Truthy(getActiveLesson(masterFile, lessonFiles))
      /\ Accumulated(currentSelection) # <<>>
      /\ \A k \in 1..Len(Accumulated(currentSelection)) :
           Starts(Accumulated(currentSelection)[k]) >
             Ends(Accumulated(currentSelection)[k])) =>
       /\ last'.err = "NoValidRanges"
       /\ UNCHANGED storeVars]_vars

C14_Witness ==
  /\ last.op = "save" /\ last.err = "NoValidRanges"
  /\ Accumulated(currentSelection) # <<>>
  /\ Truthy(getActiveLesson(masterFile, lessonFiles))

\* C16: a commit while no active lesson resolves fails with 'no active
\* lesson', writes nothing and keeps the session open
C16_NoActiveLessonRejected ==
  [][(/\ last'.op = "save"
      /\ ~Truthy(getActiveLesson(masterFile, lessonFiles))) =>
       /\ last'.err = "NoActiveLesson"
       /\ UNCHANGED storeVars
       /\ notesPanel'
       /\ UNCHANGED sessionVars]_vars

C16_Witness ==
  /\ last.op = "save" /\ last.err = "NoActiveLesson"
  /\ ActiveId = Num(1) /\ lessonFiles[1].exists
  /\ notesPanel

\* C17: the committed note is a general note with the trimmed text exactly
\* when no range is accumulated; otherwise a code note for the session's
\* file with the accumulated ranges that start no later than they end, in
\* order
C17_NoteBuilt ==
  (last.op = "save" /\ last.err = "none") =>
    LET acc == Accumulated(last.arg)
        valid(r) == Starts(r) <= Ends(r)
    IN
    /\ Get(last.ret, "markdown").v \in {Trim(text) : text \in Texts}
    /\ IF acc = <<>>
       THEN /\ Get(last.ret, "type") = Str(<<"general">>)
            /\ Get(last.ret, "ranges") = Undefined
            /\ Get(last.ret, "file") = Undefined
       ELSE /\ IsCodeNote(last.ret)
            /\ Get(last.ret, "file") = Str(asRelativePath(Get(last.arg, "file").v))
            /\ Get(last.ret, "ranges") = Arr(SelectSeq(acc, valid))

C17_Witness ==
  /\ last.op = "save" /\ last.err = "none"
  /\ Len(Accumulated(last.arg)) = 2
  /\ Len(Get(last.ret, "ranges").v) = 1

\* C18: a successful commit leaves the active lesson with the notes stored
\* at the moment of the commit, in their order, followed by the new note,
\* whoever wrote the earlier ones and whenever
C18_CommitAppends ==
  [][(last'.op = "save" /\ last'.err = "none") =>
       /\ ActiveId.t = "num"
       /\ StoredNotesIn(lessonFiles', ActiveId.v) =
            Append(StoredNotes(ActiveId.v), last'.ret)
       /\ \A id \in Ids \ {ActiveId.v} : lessonFiles'[id] = lessonFiles[id]]_vars

C18_Witness ==
  /\ last.op = "save" /\ last.err = "none"
  /\ StoredNotes(1) = <<ExternalNote, last.ret>>
  /\ IsCodeNote(last.ret)

\* C20: start() makes the navigator active, at index 0 over the notes of the
\* active lesson, exactly when that lesson resolves and has a note;
\* otherwise the navigator stays as it is and 'no active lesson' or 'no
\* notes' is reported
C20_Start ==
  [][last'.op = "start" =>
       LET activeLesson == getActiveLesson(masterFile, lessonFiles) IN
       IF activeLesson = Null
       THEN last'.err = "NoActiveLesson" /\ review' = review
       ELSE IF Get(activeLesson, "notes") = Arr(<<>>)
       THEN last'.err = "NoNotes" /\ review' = review
       ELSE /\ last'.err = "none"
            /\ review'.lessonNotes = Get(activeLesson, "notes").v
            /\ review'.lessonNotes # <<>>
            /\ review'.currentIndex = 0]_vars

C20_Witness ==
  /\ last.op = "start" /\ last.err = "none"
  /\ Len(review.lessonNotes) > 1
  /\ review.currentIndex = 0
  /\ ~review.reviewMode

\* C21: with a snapshot of n > 0 notes, next() at index n-1 leaves the index
\* and reports 'end reached', and otherwise adds exactly 1 to it; prev() at
\* index 0 leaves the index and reports 'start reached', and otherwise
\* takes exactly 1 from it
C21_NextPrevBounds ==
  [][LET n == Len(review.lessonNotes) IN
     /\ last'.op = "next" /\ n > 0 =>
          IF review.currentIndex = n - 1
          THEN last'.err = "EndReached" /\ review' = review
          ELSE /\ last'.err = "none"
               /\ review'.currentIndex = review.currentIndex + 1
               /\ review'.lessonNotes = review.lessonNotes
     /\ last'.op = "prev" /\ n > 0 =>
          IF review.currentIndex = 0
          THEN last'.err = "StartReached" /\ review' = review
          ELSE /\ last'.err = "none"
               /\ review'.currentIndex = review.currentIndex - 1
               /\ review'.lessonNotes = review.lessonNotes]_vars

\* the third next() after start() over three notes: the index stays at 2
C21_Witness ==
  /\ last.op = "next" /\ last.err = "EndReached"
  /\ Len(review.lessonNotes) = 3
  /\ review.currentIndex = 2

\* C22: once a review has started, no store operation, commit, next() or
\* host answer changes the navigator's snapshot; only another start() or
\* stop() does
C22_SnapshotFrozen ==
  [][review.lessonNotes # <<>> /\ last'.op \notin {"start", "stop"} =>
       review'.lessonNotes = review.lessonNotes]_vars

\* next() has walked to the second note of the snapshot although the
\* reviewed lesson holds other notes by now, or none
C22_Witness ==
  /\ last.op = "next" /\ last.err = "none"
  /\ review.lessonNotes = Get(ReviewedLesson, "notes").v
  /\ review.currentIndex = 1
  /\ StoredNotes(1) # review.lessonNotes
  /\ Len(StoredNotes(1)) < 2

\* the fields of the controller that make up its Inactive and Active states
Navigator(r) ==
  [lessonNotes |-> r.lessonNotes, currentIndex |-> r.currentIndex,
   previewOpened |-> r.previewOpened]

\* C23: every stop() leaves the navigator as it was constructed (no
\* snapshot, index 0, preview not opened) with the highlight cleared, and
\* every successful start() leaves it as a start() on a newly constructed
\* navigator does, whatever sessions went before
C23_StopResets ==
  [][/\ last'.op = "stop" =>
          /\ Navigator(review') = Navigator(NoReview)
          /\ currentRanges' = <<>> /\ currentEditor' = Undefined
     /\ last'.op = "start" /\ last'.err = "none" =>
          /\ Navigator(review') =
               [Navigator(NoReview) EXCEPT
                  !.lessonNotes = StoredNotes(ActiveId.v)]
          /\ tasks' = Append(tasks, Task("setContext", Undefined))]_vars

\* a second session starts: a note of an earlier session was published and
\* that session was stopped, its context key reset
C23_Witness ==
  /\ last.op = "start" /\ last.err = "none"
  /\ review.markdown # Str(<<>>)
  /\ ~review.reviewMode
  /\ tasks = <<Task("setContext", Undefined)>>

\* the note at the navigator's index
CurrentNote == review.lessonNotes[review.currentIndex + 1]

\* a start(), next() or prev() has returned after displaying a note
Displayed ==
  /\ tasks = <<>>
  /\ last.op = "resume"
  /\ review.lessonNotes # <<>>

C25_SessionIndependent ==
  [][notesPanel /\ currentSelection # Undefined =>
       LET ranges == Accumulated(currentSelection) IN
       /\ last'.op = "addNotes" /\ last'.err = "none" =>
            Accumulated(currentSelection') = Append(ranges, last'.arg)
       /\ last'.op = "removeRange" =>
            Accumulated(currentSelection') =
              IF last'.arg \in 0..(Len(ranges) - 1)
              THEN Splice(ranges, last'.arg + 1) ELSE ranges
       /\ last'.op \in {"start", "next", "stop", "resume"} =>
            currentSelection' = currentSelection]_vars

\* C26: once every start(), next() and prev() that was invoked has
\* returned, the highlighted ranges and the published markdown are those of
\* the note at the index
C26_FinalNoteShown ==
  tasks = <<>> /\ review.lessonNotes # <<>> =>
    /\ currentRanges = IF IsCodeNote(CurrentNote)
                       THEN Get(CurrentNote, "ranges").v ELSE <<>>
    /\ review.markdown = Get(CurrentNote, "markdown")

\* the suspended commands of ts that wait for the request pc
Requests(ts, pc) == Cardinality({i \in 1..Len(ts) : ts[i].pc = pc})

C28_StatusRefreshed ==
  [][/\ last'.op \in {"createLesson", "setActiveLesson", "deleteLesson",
                      "saveLesson"}
     /\ last'.err = "none"
     => statusBar' = updateStatusBar(masterFile', lessonFiles')]_vars

Cleared ==
  /\ ~notesPanel
  /\ currentSelection = Undefined
  /\ currentText = <<>>
  /\ currentRanges = <<>> /\ currentEditor = Undefined

\* the ranges a session is opened with: the selection of the addNotes
\* command, or the ranges handed to createOrShowNotesPanel
GivenRanges(l) ==
  IF l.op = "addNotes"
  THEN IF l.arg = Undefined THEN <<>> ELSE <<l.arg>>
  ELSE Accumulated(l.ret)

\* C30: a successful commit leaves no session and no highlight, as after
\* construction, and a session opened in that state has an empty draft
\* and the ranges it is opened with, which are the ranges highlighted
C30_CommitClears ==
  [][/\ last'.op = "save" /\ last'.err = "none" =>
          /\ ~notesPanel' /\ currentSelection' = Undefined
          /\ currentText' = <<>>
          /\ currentRanges' = <<>> /\ currentEditor' = Undefined
     /\ Cleared /\ notesPanel' =>
          /\ currentText' = <<>>
          /\ Accumulated(currentSelection') = GivenRanges(last')
          /\ currentRanges' \in {GivenRanges(last'), <<>>}]_vars

\* a session opened with one range after a commit
C30_Witness ==
  /\ TotalNotes = 1
  /\ last.op = "addNotes" /\ last.err = "none"
  /\ notesPanel /\ currentText = <<>>
  /\ Accumulated(currentSelection) = <<Arr(<<Num(0), Num(1)>>)>>
  /\ Len(StoredNotes(1)) = 1

\* C31: a commit that fails leaves the master state, the lesson bodies, the
\* session's ranges, file and draft and the highlight as they are, with the
\* panel open
C31_FailedCommitResumable ==
  [][last'.op = "save" /\ last'.err # "none" =>
       /\ last'.err \in {"NoActiveLesson", "NoValidRanges"}
       /\ masterFile' = masterFile /\ lessonFiles' = lessonFiles
       /\ notesPanel'
       /\ currentSelection' = currentSelection
       /\ currentText' = currentText
       /\ currentRanges' = currentRanges /\ currentEditor' = currentEditor]_vars

\* a commit has failed for want of a valid range: the session is open with
\* its range and its draft
C31_Witness ==
  /\ last.op = "save" /\ last.err = "NoValidRanges"
  /\ notesPanel
  /\ currentText # <<>>
  /\ Accumulated(currentSelection) = <<Arr(<<Num(5), Num(2)>>)>>

\* C32: the 'cancel' message leaves no panel, no ranges, no file, no draft
\* and no highlight, and the master state and every lesson body as they
\* were
C32_Discard ==
  [][last'.op = "cancel" =>
       /\ ~notesPanel'
       /\ currentSelection' = Undefined
       /\ currentText' = <<>>
       /\ currentRanges' = <<>> /\ currentEditor' = Undefined
       /\ masterFile' = masterFile /\ lessonFiles' = lessonFiles]_vars

\* a session has been discarded: nothing is left of it, the lesson is as it
\* was
C32_Witness ==
  /\ last.op = "cancel"
  /\ ~notesPanel
  /\ currentSelection = Undefined
  /\ currentRanges = <<>>
  /\ StoredNotes(1) = <<>> /\ lessonFiles[1].exists

\* C33: next() and prev() on a navigator without a snapshot leave the
\* snapshot, the index, the published markdown, the suspended commands and
\* the highlight as they are and show no notice
C33_InactiveNoOp ==
  [][last'.op \in {"next", "prev"} /\ review.lessonNotes = <<>> =>
       /\ last'.err = "none"
       /\ review' = review
       /\ tasks' = tasks
       /\ currentRanges' = currentRanges /\ currentEditor' = currentEditor]_vars

\* prev() after a session that published a note was stopped
C33_Witness ==
  /\ last.op = "prev" /\ last.err = "none"
  /\ review.lessonNotes = <<>>
  /\ review.markdown # Str(<<>>)
  /\ ~review.reviewMode

\* C34: when the navigator has a snapshot, its preview is open and no
\* command is suspended, the published markdown is the markdown of the note
\* at the index
C34_MarkdownIsCurrentNote ==
  /\ tasks = <<>>
  /\ review.lessonNotes # <<>>
  /\ review.previewOpened
  => review.markdown = Get(CurrentNote, "markdown")

\* C35: the navigator has no snapshot and index 0, or a snapshot and an
\* index of one of its notes
C35_IndexInBounds ==
  IF review.lessonNotes = <<>>
  THEN review.currentIndex = 0
  ELSE review.currentIndex \in 0..(Len(review.lessonNotes) - 1)

\* prev() from the last of three notes, with a command still suspended
C35_Witness ==
  /\ last.op = "prev" /\ last.err = "none"
  /\ Len(review.lessonNotes) = 3
  /\ review.currentIndex = 1
  /\ Len(tasks) = 2

\* C36: once the review is stopped and every suspended command has run to
\* its end, no highlight is shown
C36_StoppedIsClear ==
  /\ tasks = <<>>
  /\ review.lessonNotes = <<>>
  => currentRanges = <<>>

\* C37: no lesson file exists under the id a successful createLesson assigns
C37_CreateKeepsBodies ==
  [][last'.op = "createLesson" /\ last'.err = "none"
     => ~lessonFiles[last'.arg].exists]_vars

\* C38: a successful save appends its note to the file of the lesson that is
\* active when it runs, keeps the rest of that lesson, and leaves lessons.json
\* and every other lesson file as they are
C38_CommitFrame ==
  [][last'.op = "save" /\ last'.err = "none"
     => LET a == ActiveId.v IN
        /\ masterFile' = masterFile
        /\ \A id \in Ids \ {a} : lessonFiles'[id] = lessonFiles[id]
        /\ StoredNotesIn(lessonFiles', a) =
             Append(StoredNotesIn(lessonFiles, a), last'.ret)
        /\ getLessonById(lessonFiles', Num(a)) =
             Put(getLessonById(lessonFiles, Num(a)), "notes",
                 Arr(StoredNotesIn(lessonFiles', a)))]_vars

\* a session opened with the first lesson active has stored its note in the
\* second, and the two notes of the first are as they were
C38_Witness ==
  /\ last.op = "save" /\ last.err = "none"
  /\ ActiveId = Num(2)
  /\ StoredNotes(2) = <<last.ret>>
  /\ IsCodeNote(last.ret)
  /\ StoredNotes(1) = Get(ReviewedLesson, "notes").v

=============================================================================
